---- MODULE Spec2Model ----
(***************************************************************************)
(* The reservation API server of microserv-platform.                       *)
(*                                                                         *)
(* The repository holds four revisions of the same Express server:         *)
(*   "srvA"  src/api-server/server.js, lines   1-301                       *)
(*   "srvB"  src/api-server/server.js, lines 303-540                       *)
(*   "p000"  src/unnamed/part_000                                          *)
(*   "p001"  src/unnamed/part_001                                          *)
(* A server process runs one of them (variable rev, chosen in Init).       *)
(* A request is a little process: the authentication middleware, then the  *)
(* route handler, which suspends at every await on the identity verifier   *)
(* or on Firestore.  One action is one run-to-the-next-await of the        *)
(* single-threaded event loop; a store call takes effect at the step that  *)
(* completes it.                                                           *)
(***************************************************************************)
EXTENDS Integers, Sequences, FiniteSets, TLC

\* ------------------------------------------------------------------ bounds

\* Requests admitted over a run of the server.
MaxRequests == 2

\* ------------------------------------------------------------ JS values

\* A property that is absent from an object (JS undefined).
Undefined == "<undefined>"

\* !x of JavaScript on the values used here (strings and undefined).
Falsy(x) == x = Undefined \/ x = ""

\* String.prototype.trim on the strings used here.
Trim(s) ==
  CASE s = " "     -> ""
    [] s = " svc1" -> "svc1"
    [] OTHER       -> s

\* The UTF-16 code units of the time-of-day strings used here.
Chars(s) ==
  CASE s = "10:00" -> <<49, 48, 58, 48, 48>>
    [] s = "10:30" -> <<49, 48, 58, 51, 48>>
    [] s = "11:00" -> <<49, 49, 58, 48, 48>>
    [] s = "11:30" -> <<49, 49, 58, 51, 48>>
    [] s = "12:00" -> <<49, 50, 58, 48, 48>>
    [] OTHER       -> <<>>

\* a < b of JavaScript on two strings: code unit by code unit, a proper
\* prefix being smaller.
RECURSIVE SeqLess(_, _)
SeqLess(a, b) ==
  IF b = <<>> THEN FALSE
  ELSE IF a = <<>> THEN TRUE
  ELSE IF Head(a) # Head(b) THEN Head(a) < Head(b)
  ELSE SeqLess(Tail(a), Tail(b))

StrGE(a, b) == ~SeqLess(Chars(a), Chars(b))
StrLE(a, b) == ~SeqLess(Chars(b), Chars(a))

\* ------------------------------------------------------------- the store

Revisions == {"srvA", "srvB", "p000", "p001"}
\* Two requests are served at a time.
Slots     == {1, 2}
Users     == {"u1", "u2"}
ErrCodes  == {"permission-denied", "not-found", "resource-exhausted", "unavailable"}

VARIABLES
  rev,        \* the revision this server process runs
  services,   \* ids of the documents of collection 'services'
  store,      \* collection 'reservations', in write order
  req,        \* slot -> the request being served in it
  admitted    \* requests admitted so far

vars == <<rev, services, store, req, admitted>>

\* --------------------------------------------------------- request input

\* req.body.totalPrice: a number, a numeric string, another string or absent.
PNum(n)    == [t |-> "num", n |-> n]
PNumStr(n) == [t |-> "numstr", n |-> n]
PStr       == [t |-> "str", n |-> 0]
PUndef     == [t |-> "undef", n |-> 0]
PNaN       == [t |-> "nan", n |-> 0]

\* Number(x) of JavaScript.
Number(p) ==
  CASE p.t = "num"    -> p
    [] p.t = "numstr" -> PNum(p.n)
    [] OTHER          -> PNaN

\* !p of JavaScript on a price value: undefined, NaN and 0 are falsy, and a
\* string is falsy only when empty (none here is).
PriceFalsy(p) == p.t \in {"undef", "nan"} \/ (p.t = "num" /\ p.n = 0)

\* The verified uid of a bearer token, Undefined when the verifier rejects it.
TokenUid(token) ==
  CASE token = "tok-u1" -> "u1"
    [] token = "tok-u2" -> "u2"
    [] OTHER            -> Undefined

NoBody ==
  [serviceId |-> Undefined, providerId |-> Undefined, date |-> Undefined,
   startTime |-> Undefined, endTime |-> Undefined, totalPrice |-> PUndef,
   clientId |-> Undefined]

\* A slot that serves no request.
Idle ==
  [pc |-> "idle", method |-> "-", header |-> "absent", token |-> "",
   user |-> Undefined, body |-> NoBody, providerId |-> Undefined,
   snapshot |-> <<>>, out |-> <<>>, pending |-> {}, status |-> 0, sent |-> 0,
   resId |-> 0, n |-> 0, issued |-> 0, added |-> 0, late |-> "none",
   base |-> 0, svcSeen |-> FALSE, failed |-> FALSE, clear |-> FALSE,
   touch |-> FALSE, err |-> "none", tries |-> 0, early |-> FALSE,
   shadow |-> FALSE]

\* --------------------------------------------------------------- queries

\* The documents of a collection as a set.
Docs == {store[i] : i \in 1..Len(store)}

\* orderBy('createdAt', 'desc') on a set of documents.
RECURSIVE OrderByCreatedAtDesc(_)
OrderByCreatedAtDesc(S) ==
  IF S = {} THEN <<>>
  ELSE LET d == CHOOSE x \in S : \A y \in S : y.createdAt <= x.createdAt
       IN  <<d>> \o OrderByCreatedAtDesc(S \ {d})

\* --------------------------------------------------------------- history
\* What the claims speak of and the code does not compute. The request
\* fields clear and touch record, at the step where the handler decides to
\* write (the conflict check, or the entry of a handler that has none),
\* whether the requested slot was free, whether a reservation touched it and
\* (shadow) whether a reservation out of the check's scope overlapped it.

\* A time of day in minutes.
Minutes(t) ==
  CASE t = "10:00" -> 600
    [] t = "10:30" -> 630
    [] t = "11:00" -> 660
    [] t = "11:30" -> 690
    [] t = "12:00" -> 720
    [] OTHER       -> 0

\* Half-open ranges [s1, e1) and [s2, e2) overlap.
TimeOverlap(s1, e1, s2, e2) ==
  ~(Minutes(s2) >= Minutes(e1) \/ Minutes(e2) <= Minutes(s1))

\* Documents a and b book the same service on the same date at overlapping
\* times (a and b are documents or request bodies).
SameSlot(a, b) ==
  /\ a.serviceId = b.serviceId
  /\ a.date = b.date
  /\ TimeOverlap(a.startTime, a.endTime, b.startTime, b.endTime)

\* No reservation that is not cancelled books the slot of body b now.
NoLiveOverlap(b) ==
  \A d \in Docs : d.status # "cancelled" => ~SameSlot(b, d)

\* A reservation that is not cancelled ends where b starts or starts where b
\* ends, on the same service and date.
LiveAdjacent(b) ==
  \E d \in Docs :
    /\ d.status # "cancelled"
    /\ d.serviceId = b.serviceId /\ d.date = b.date
    /\ d.endTime = b.startTime \/ d.startTime = b.endTime

\* A reservation overlaps b in time and is out of the scope of the conflict
\* check: it is cancelled, or books another service or another date.
ForeignOverlap(b) ==
  \E d \in Docs :
    /\ TimeOverlap(b.startTime, b.endTime, d.startTime, d.endTime)
    /\ d.status = "cancelled" \/ d.serviceId # b.serviceId \/ d.date # b.date

\* ------------------------------------------------------------------ Init

Init ==
  /\ rev \in Revisions
  /\ services = {"svc1", "svc2"}
  /\ store = <<>>
  /\ req = [r \in Slots |-> Idle]
  /\ admitted = 0

\* -------------------------------------------------------------- responses

\* res.status(code).json(...): the response leaves, the handler is over
\* unless a loser of a Promise.race is still pending (late).
Respond(q, code) ==
  [q EXCEPT !.pc = "done", !.status = code, !.sent = q.sent + 1]

\* The catch block of the route handler: the status a failed store call is
\* answered with.
ErrStatus(method, code) ==
  CASE rev \in {"srvA", "p000"} /\ method = "POST" ->
         IF code = "permission-denied" THEN 403
         ELSE IF code = "not-found" THEN 404 ELSE 500
    [] rev = "srvA" /\ method = "GET" ->
         IF code = "permission-denied" THEN 403 ELSE 500
    [] OTHER -> 500

\* The status of the rejection of timeoutPromise (srvB only).
TimeoutStatus == 504

\* ---------------------------------------------------- authentication

\* A slot is free when it serves no request or its request is over: the
\* response is sent and no promise of the request is pending.
Free(r) == req[r].pc = "idle" \/ (req[r].pc = "done" /\ req[r].late = "none")

\* Mutant: any Authorization header that is present is taken for a bearer
\* token.
MutHasBearer(header) == header # "absent"

\* authHeader?.startsWith('Bearer ') on the headers used here: "absent",
\* "basic" (another scheme) and "bearer".
HasBearer(header) == header = "bearer"

\* A request arrives; authenticateUser runs up to its await: without a
\* 'Bearer ' header it answers 401, otherwise verifyIdToken is called.
Receive(r, inp) ==
  /\ Free(r)
  /\ admitted < MaxRequests
  /\ admitted' = admitted + 1
  /\ LET q == [Idle EXCEPT !.method = inp.method, !.header = inp.header,
                           !.token = inp.token, !.body = inp.body,
                           !.providerId = inp.providerId,
                           !.n = admitted + 1, !.base = Len(store)]
     IN  req' = [req EXCEPT ![r] =
                   IF ~HasBearer(q.header) THEN Respond(q, 401)
                   ELSE [q EXCEPT !.pc = "verify"]]
  /\ UNCHANGED <<rev, services, store>>

\* The required-field check of POST /api/reservations.
MissingFields(b) ==
  IF rev = "srvB"
  THEN Falsy(b.serviceId) \/ Falsy(b.providerId)
  ELSE Falsy(b.serviceId) \/ Falsy(b.providerId) \/ Falsy(b.date)
       \/ Falsy(b.startTime) \/ Falsy(b.endTime)

\* p001 passes req.body.totalPrice to set() as it is: the store client
\* refuses a document with an undefined field and set() throws before any
\* write (no revision sets ignoreUndefinedProperties).
SetThrows(b) == rev = "p001" /\ b.totalPrice.t = "undef"

\* The POST handler from its entry to its first await.
PostEntry(q) ==
  IF MissingFields(q.body) THEN Respond(q, 400)
  ELSE IF SetThrows(q.body) THEN Respond([q EXCEPT !.failed = TRUE], 500)
  ELSE [q EXCEPT !.issued = q.issued + 1,
                 !.clear = NoLiveOverlap(q.body),
                 !.touch = LiveAdjacent(q.body),
                 !.shadow = ForeignOverlap(q.body),
                 !.pc = CASE rev \in {"srvA", "p000"} -> "svcGet"
                          [] rev = "srvB"             -> "race"
                          [] OTHER                    -> "set"]

\* The GET handler from its entry to its first await: the primary query is
\* issued (in srvB raced against a 25 s timer).
GetEntry(q) ==
  [q EXCEPT !.issued = q.issued + 1,
            !.pc = IF rev = "srvB" THEN "race" ELSE "query"]

\* req.user = decodedToken
Authenticated(q) == [q EXCEPT !.user = TokenUid(q.token)]

\* verifyIdToken resolves: req.user is set and next() enters the handler.
VerifyOk(r) ==
  /\ req[r].pc = "verify"
  /\ TokenUid(req[r].token) # Undefined
  /\ LET q == Authenticated(req[r])
     IN  req' = [req EXCEPT ![r] =
                   IF q.method = "POST" THEN PostEntry(q) ELSE GetEntry(q)]
  /\ UNCHANGED <<rev, services, store, admitted>>

\* verifyIdToken rejects: 401.
VerifyFail(r) ==
  /\ req[r].pc = "verify"
  /\ TokenUid(req[r].token) = Undefined
  /\ req' = [req EXCEPT ![r] = Respond(req[r], 401)]
  /\ UNCHANGED <<rev, services, store, admitted>>

\* ------------------------------------------------- POST /api/reservations

\* x || '' of JavaScript.
OrEmpty(x) == IF Falsy(x) THEN "" ELSE x

\* The totalPrice each revision writes.
PriceWritten(p) ==
  CASE rev \in {"srvA", "p000"} ->
         IF PriceFalsy(Number(p)) THEN PNum(0) ELSE Number(p)
    [] rev = "srvB" -> IF PriceFalsy(p) THEN PNum(0) ELSE p
    [] OTHER -> p

\* Mutant: the owner is taken from the request body when it names one.
MutOwnerWritten(q) ==
  IF q.body.clientId # Undefined THEN q.body.clientId ELSE q.user

\* The owner the handler writes: req.user.uid.
OwnerWritten(q) == q.user

\* Mutant: records are created confirmed.
MutInitialStatus == "confirmed"

\* The status the handler writes.
InitialStatus == "pending"

\* The document the handler writes, at the server timestamp at. by, rq,
\* checked and asked are history fields: the uid the verifier returned for
\* the request's token, the request's number, whether the handler saw the
\* service exist, and the totalPrice of the request body.
DocOf(q, at) ==
  LET b == q.body
      owner == OwnerWritten(q)
  IN  [id         |-> q.n,
       userId     |-> IF rev = "srvB" THEN Undefined ELSE owner,
       clientId   |-> IF rev = "srvB" THEN owner ELSE Undefined,
       serviceId  |-> IF rev = "srvB" THEN Trim(b.serviceId) ELSE b.serviceId,
       providerId |-> IF rev = "srvB" THEN Trim(b.providerId) ELSE b.providerId,
       date       |-> IF rev = "srvB" THEN OrEmpty(b.date) ELSE b.date,
       startTime  |-> IF rev = "srvB" THEN OrEmpty(b.startTime) ELSE b.startTime,
       endTime    |-> IF rev = "srvB" THEN OrEmpty(b.endTime) ELSE b.endTime,
       totalPrice |-> PriceWritten(b.totalPrice),
       status     |-> InitialStatus,
       createdAt  |-> at,
       by         |-> TokenUid(q.token),
       rq         |-> q.n,
       checked    |-> q.svcSeen,
       asked      |-> b.totalPrice]

\* FieldValue.serverTimestamp(): the store's clock at the write.
NewDoc(q) == DocOf(q, Len(store) + 1)

\* The service existence check (srvA, p000): 404 when the service document
\* does not exist, otherwise the conflict query is issued.
SvcGet(r) ==
  /\ req[r].pc = "svcGet"
  /\ req' = [req EXCEPT ![r] =
       IF req[r].body.serviceId \in services
       THEN [@ EXCEPT !.pc = "conflict", !.svcSeen = TRUE, !.issued = @ + 1]
       ELSE Respond(@, 404)]
  /\ UNCHANGED <<rev, services, store, admitted>>

\* Mutant: the query has no status filter.
MutConflictQuery(b) ==
  {d \in Docs : d.serviceId = b.serviceId /\ d.date = b.date}

\* where serviceId == .. where date == .. where status != 'cancelled'
ConflictQuery(b) ==
  {d \in Docs : d.serviceId = b.serviceId /\ d.date = b.date
                /\ d.status # Undefined /\ d.status # "cancelled"}

\* Mutant: ranges that only touch are taken to overlap.
MutOverlapping(b, d) ==
  ~(SeqLess(Chars(d.endTime), Chars(b.startTime))
    \/ SeqLess(Chars(b.endTime), Chars(d.startTime)))

\* The filter of the conflict check.
Overlapping(b, d) ==
  ~(StrGE(b.startTime, d.endTime) \/ StrLE(b.endTime, d.startTime))

ConflictingReservations(b) == {d \in ConflictQuery(b) : Overlapping(b, d)}

\* The conflict query resolves (srvA, p000): 409 when a candidate overlaps,
\* otherwise the new document's set() is issued.
ConflictCheck(r) ==
  /\ req[r].pc = "conflict"
  /\ LET q == [req[r] EXCEPT !.clear = NoLiveOverlap(req[r].body),
                             !.touch = LiveAdjacent(req[r].body),
                             !.shadow = ForeignOverlap(req[r].body)]
     IN  req' = [req EXCEPT ![r] =
           IF ConflictingReservations(q.body) # {}
           THEN Respond(q, 409)
           ELSE [q EXCEPT !.pc = "set", !.issued = @ + 1]]
  /\ UNCHANGED <<rev, services, store, admitted>>

\* set() resolves (srvA, p000, p001): the document is in the store, 201.
SetDone(r) ==
  /\ req[r].pc = "set"
  /\ store' = Append(store, NewDoc(req[r]))
  /\ req' = [req EXCEPT ![r] =
       Respond([@ EXCEPT !.added = @ + 1, !.resId = req[r].n], 201)]
  /\ UNCHANGED <<rev, services, admitted>>

\* srvB: add() resolves before the 60 s timer: the document is in the store,
\* 201; the timer stays armed.
AddDone(r) ==
  /\ req[r].pc = "race" /\ req[r].method = "POST"
  /\ store' = Append(store, NewDoc(req[r]))
  /\ req' = [req EXCEPT ![r] =
       Respond([@ EXCEPT !.added = @ + 1, !.resId = req[r].n,
                         !.late = "timer"], 201)]
  /\ UNCHANGED <<rev, services, admitted>>

\* srvB: the timer fires before the store call settles: Promise.race
\* rejects with 'Timeout Firestore', 504; the store call stays pending.
RaceTimeout(r) ==
  /\ req[r].pc = "race"
  /\ req' = [req EXCEPT ![r] =
       Respond([@ EXCEPT !.late = "store", !.failed = TRUE], TimeoutStatus)]
  /\ UNCHANGED <<rev, services, store, admitted>>

\* Mutant: the handler goes on when the add() it lost track of resolves,
\* and answers 201.
MutLateSettle(r) ==
  /\ req[r].late # "none"
  /\ IF req[r].late = "store" /\ req[r].method = "POST"
     THEN /\ store' = Append(store, NewDoc(req[r]))
          /\ req' = [req EXCEPT ![r] =
               Respond([@ EXCEPT !.late = "none", !.added = @ + 1], 201)]
     ELSE /\ store' = store
          /\ req' = [req EXCEPT ![r].late = "none"]
  /\ UNCHANGED <<rev, services, admitted>>

\* srvB: the loser of the race settles after the response: a pending add()
\* still writes its document; a pending query or timer has no effect.
LateSettle(r) ==
  /\ req[r].late # "none"
  /\ IF req[r].late = "store" /\ req[r].method = "POST"
     THEN \/ /\ store' = Append(store, NewDoc(req[r]))
             /\ req' = [req EXCEPT ![r].late = "none", ![r].added = @ + 1]
          \/ /\ store' = store
             /\ req' = [req EXCEPT ![r].late = "none"]
     ELSE /\ store' = store
          /\ req' = [req EXCEPT ![r].late = "none"]
  /\ UNCHANGED <<rev, services, admitted>>

\* A store call of the handler's main path rejects: the catch block answers.
\* (A failed service lookup of the list is caught per entry: see Lookup.)
\* err and tries are history fields: the code the store call failed with and
\* the number of times the handler made that call (the await rejects and
\* control goes to the catch block: the call is not made again).
StoreFail(r, code) ==
  /\ req[r].pc \in {"svcGet", "conflict", "set", "race", "query"}
  /\ req' = [req EXCEPT ![r] =
       Respond([@ EXCEPT !.failed = TRUE, !.err = code, !.tries = 1,
                         !.late = IF req[r].pc = "race" THEN "timer" ELSE "none"],
               ErrStatus(req[r].method, code))]
  /\ UNCHANGED <<rev, services, store, admitted>>

\* -------------------------------------------------- GET /api/reservations

\* The primary query of the list: the owner field each revision filters on,
\* and in p000 the optional providerId filter.
ListQuery(q) ==
  CASE rev = "srvA" -> {d \in Docs : d.userId = q.user}
    [] rev = "srvB" -> {d \in Docs : d.clientId = Trim(q.user)}
    [] rev = "p000" ->
         {d \in Docs : /\ d.clientId = q.user
                       /\ Falsy(q.providerId) \/ d.providerId = q.providerId}
    [] OTHER -> {d \in Docs : d.userId = q.user}

\* Whether the enrichment of document d awaits a service lookup. srvB skips
\* the lookup of a document without serviceId; in srvA and p000
\* collection('services').doc(serviceId) throws on an empty path and the
\* catch around the lookup answers null at once; p001 makes no lookup.
NeedsLookup(d) ==
  CASE rev = "p001" -> FALSE
    [] rev = "srvB" -> ~Falsy(d.serviceId) /\ ~Falsy(Trim(d.serviceId))
    [] OTHER        -> ~Falsy(d.serviceId)

\* The service attached to an entry whose lookup is not awaited.
NoLookupService ==
  CASE rev = "p001" -> "absent"
    [] rev = "srvB" -> "{}"
    [] OTHER        -> "null"

\* The document path of the lookup: srvB trims the serviceId.
ServiceKey(d) == IF rev = "srvB" THEN Trim(d.serviceId) ELSE d.serviceId

\* The service attached when the lookup resolved (found: the service exists).
LookedUpService(d, found) ==
  IF found THEN ServiceKey(d)
  ELSE IF rev = "srvB" THEN "{}" ELSE "null"

\* The service attached when the lookup rejected: the catch around it.
FailedLookupService == IF rev = "srvB" THEN "{}" ELSE "null"

\* The entries as the handler holds them once the primary query resolved:
\* one per document, in the order of the snapshot, "?" where a lookup is
\* awaited. lk is a history field: how the lookup of the entry went (skipped,
\* pending, then found, missing or failed).
FirstEntries(snap) ==
  [i \in 1..Len(snap) |->
     [id |-> snap[i].id,
      service |-> IF NeedsLookup(snap[i]) THEN "?" ELSE NoLookupService,
      lk |-> IF NeedsLookup(snap[i]) THEN "pending" ELSE "skipped"]]

\* The lookups in flight: all of them under srvB's Promise.all, the first
\* awaited one of the sequential loop otherwise.
InFlight(out) ==
  LET waiting == {i \in 1..Len(out) : out[i].service = "?"}
  IN  IF rev = "srvB" \/ waiting = {} THEN waiting
      ELSE {CHOOSE i \in waiting : \A j \in waiting : i <= j}

\* The handler after entry i got its service: the next lookup, or the
\* response when none is left.
AfterEntries(q, out) ==
  LET fl == InFlight(out)
      q2 == [q EXCEPT !.out = out, !.pending = fl,
                      !.issued = IF rev = "srvB" THEN q.issued
                                 ELSE q.issued + Cardinality(fl)]
  IN  IF fl = {} THEN Respond(q2, 200) ELSE [q2 EXCEPT !.pc = "lookup"]

\* The primary query resolves.
QueryDone(r) ==
  /\ \/ req[r].pc = "query"
     \/ req[r].pc = "race" /\ req[r].method = "GET"
  /\ LET q    == req[r]
         snap == OrderByCreatedAtDesc(ListQuery(q))
         out  == FirstEntries(snap)
         q1   == [q EXCEPT !.snapshot = snap,
                           !.late = IF rev = "srvB" THEN "timer" ELSE "none",
                           !.issued = IF rev = "srvB"
                                      THEN q.issued + Cardinality(InFlight(out))
                                      ELSE q.issued]
     IN  req' = [req EXCEPT ![r] = AfterEntries(q1, out)]
  /\ UNCHANGED <<rev, services, store, admitted>>

\* Mutant: the entries are stored in the order their lookups complete (each
\* pushed to a shared array) instead of at the index of their document.
MutCompletionOrder(q, i, ok) ==
  LET d     == q.snapshot[i]
      found == ServiceKey(d) \in services
      svc   == IF ok THEN LookedUpService(d, found) ELSE FailedLookupService
      lk    == IF ~ok THEN "failed" ELSE IF found THEN "found" ELSE "missing"
      k     == CHOOSE j \in q.pending : \A m \in q.pending : j <= m
      e     == [id |-> q.out[i].id, service |-> svc, lk |-> lk]
  IN  AfterEntries(q, [j \in 1..Len(q.out) |->
                         IF j = k THEN e
                         ELSE IF j = i THEN q.out[k] ELSE q.out[j]])

\* Mutant: a rejected lookup is not caught and the catch block of the
\* handler answers 500.
MutLookupSettled(q, i, ok) ==
  IF ok
  THEN LET d     == q.snapshot[i]
           found == ServiceKey(d) \in services
       IN  AfterEntries(q, [q.out EXCEPT
             ![i].service = LookedUpService(d, found),
             ![i].lk = IF found THEN "found" ELSE "missing"])
  ELSE Respond([q EXCEPT !.pending = {}], 500)

\* The handler once the lookup of entry i settled: resolved (ok: the service
\* exists or not) or rejected, which the catch around the lookup swallows.
LookupSettled(q, i, ok) ==
  LET d     == q.snapshot[i]
      found == ServiceKey(d) \in services
      svc   == IF ok THEN LookedUpService(d, found) ELSE FailedLookupService
      lk    == IF ~ok THEN "failed" ELSE IF found THEN "found" ELSE "missing"
  IN  AfterEntries(q, [q.out EXCEPT ![i].service = svc, ![i].lk = lk])

\* The service lookup of entry i settles. early is a history field: some
\* lookup of the request settled while the lookup of an earlier entry was
\* still pending.
Lookup(r, i, ok) ==
  /\ req[r].pc = "lookup"
  /\ i \in req[r].pending
  /\ req' = [req EXCEPT ![r] =
       [LookupSettled(req[r], i, ok) EXCEPT
          !.early = req[r].early \/ \E j \in req[r].pending : j < i]]
  /\ UNCHANGED <<rev, services, store, admitted>>

\* ------------------------------------------------------- the environment

\* Status transitions happen outside this server: pending -> confirmed or
\* cancelled.
ExternalStatus(i, s) ==
  /\ i \in 1..Len(store)
  /\ store[i].status = "pending"
  /\ s \in {"confirmed", "cancelled"}
  /\ store' = [store EXCEPT ![i].status = s]
  /\ UNCHANGED <<rev, services, req, admitted>>

\* Services are owned externally: one is deleted.
ExternalServiceDelete(s) ==
  /\ s \in services
  /\ services' = services \ {s}
  /\ UNCHANGED <<rev, store, req, admitted>>

\* ------------------------------------------------------------ the inputs

\* Concrete scenario 1 of the specification.
BaseBody ==
  [serviceId |-> "svc1", providerId |-> "p1", date |-> "2024-06-01",
   startTime |-> "10:00", endTime |-> "11:00", totalPrice |-> PNum(50),
   clientId |-> Undefined]

\* Scenario 1, the overlapping slot of scenario 2, the adjacent slot of
\* scenario 3.
SlotBodies ==
  {BaseBody,
   [BaseBody EXCEPT !.startTime = "10:30", !.endTime = "11:30"],
   [BaseBody EXCEPT !.startTime = "11:00", !.endTime = "12:00"]}

\* One required field missing (absent or empty).
IncompleteBodies ==
  {[BaseBody EXCEPT !.serviceId = Undefined],
   [BaseBody EXCEPT !.providerId = ""],
   [BaseBody EXCEPT !.date = Undefined],
   [BaseBody EXCEPT !.startTime = ""],
   [BaseBody EXCEPT !.endTime = Undefined]}

PostInput(token, b) ==
  [method |-> "POST", header |-> "bearer", token |-> token, body |-> b,
   providerId |-> Undefined]

GetInput(token, prov) ==
  [method |-> "GET", header |-> "bearer", token |-> token, body |-> NoBody,
   providerId |-> prov]

AuthFailInputs ==
  {[PostInput("tok-bad", BaseBody) EXCEPT !.header = h] :
     h \in {"absent", "basic", "bearer"}}

\* The slots of the specification's scenarios, one caller.
Inputs ==
  {PostInput("tok-u1", b) : b \in SlotBodies}
  \cup {GetInput("tok-u1", Undefined), PostInput("tok-bad", BaseBody)}

\* Requests with a required field missing or an unknown service.
FieldInputs ==
  {PostInput("tok-u1", b) :
     b \in {BaseBody, [BaseBody EXCEPT !.serviceId = "svc9"]}
           \cup IncompleteBodies}
  \cup {GetInput("tok-u1", Undefined), PostInput("tok-bad", BaseBody)}

\* Two callers, an owner supplied in the body.
OwnerInputs ==
  {PostInput("tok-u1", BaseBody), PostInput("tok-u2", BaseBody),
   PostInput("tok-u1", [BaseBody EXCEPT !.clientId = "u2"]),
   GetInput("tok-u1", Undefined), GetInput("tok-u2", Undefined),
   PostInput("tok-bad", BaseBody)}

\* Reservations whose service lookup is skipped (srvB stores the trimmed
\* serviceId) or finds nothing (svc1 is deleted).
ListInputs ==
  {PostInput("tok-u1", BaseBody),
   PostInput("tok-u1", [BaseBody EXCEPT !.serviceId = " "]),
   GetInput("tok-u1", Undefined), PostInput("tok-bad", BaseBody)}

\* ------------------------------------------------------ the specification

\* A request takes the first free slot.
FirstFree(r) == \A r2 \in Slots : r2 < r => ~Free(r2)

NextOn(inputs, statuses, codes) ==
  \/ \E r \in Slots, inp \in inputs : FirstFree(r) /\ Receive(r, inp)
  \/ \E r \in Slots : VerifyOk(r)
  \/ \E r \in Slots : VerifyFail(r)
  \/ \E r \in Slots : SvcGet(r)
  \/ \E r \in Slots : ConflictCheck(r)
  \/ \E r \in Slots : SetDone(r)
  \/ \E r \in Slots : AddDone(r)
  \/ \E r \in Slots : RaceTimeout(r)
  \/ \E r \in Slots : LateSettle(r)
  \/ \E r \in Slots, code \in codes : StoreFail(r, code)
  \/ \E r \in Slots : QueryDone(r)
  \/ \E r \in Slots, ok \in BOOLEAN : \E i \in req[r].pending : Lookup(r, i, ok)
  \/ \E s \in statuses : \E i \in 1..Len(store) : ExternalStatus(i, s)
  \/ \E s \in {"svc1"} : ExternalServiceDelete(s)

Next == NextOn(Inputs, {"cancelled"}, {"unavailable"})
Spec == Init /\ [][Next]_vars

NextFields == NextOn(FieldInputs, {"confirmed", "cancelled"}, ErrCodes)
SpecFields == Init /\ [][NextFields]_vars

NextOwner == NextOn(OwnerInputs, {"cancelled"}, {"unavailable"})
SpecOwner == Init /\ [][NextOwner]_vars

\* A finished create of u1, the n-th before the run.
EarlierCreate(n, b) ==
  [Idle EXCEPT !.method = "POST", !.header = "bearer", !.token = "tok-u1",
               !.user = "u1", !.body = b, !.n = 100 + n,
               !.svcSeen = rev \in {"srvA", "p000"}]

\* The server has run: u1 holds a reservation of svc2.
InitList ==
  /\ rev \in Revisions
  /\ services = {"svc1", "svc2"}
  /\ store = <<DocOf(EarlierCreate(1, [BaseBody EXCEPT !.serviceId = "svc2"]), 1)>>
  /\ req = [r \in Slots |-> Idle]
  /\ admitted = 0

NextList == NextOn(ListInputs, {"confirmed"}, {"permission-denied"})
SpecList == InitList /\ [][NextList]_vars

\* A caller who lists and creates, and a rejected token.
LiveInputs ==
  {GetInput("tok-u1", Undefined), PostInput("tok-u1", BaseBody),
   GetInput("tok-bad", Undefined)}

\* The scheduling the runtime guarantees: an armed timer fires (setTimeout)
\* and, as the liveness claims assume, the identity verifier answers. Nothing
\* makes the store answer.
NextLive == NextOn(LiveInputs, {"cancelled"}, {"unavailable"})
Fairness ==
  \A r \in Slots :
    /\ WF_vars(VerifyOk(r))
    /\ WF_vars(VerifyFail(r))
    /\ WF_vars(RaceTimeout(r))
SpecLive == InitList /\ [][NextLive]_vars /\ Fairness

\* Requests without a header, with another scheme, with a token the verifier
\* rejects, and with a valid token.
AuthInputs ==
  AuthFailInputs
  \cup {[PostInput("tok-u1", BaseBody) EXCEPT !.header = "basic"],
        [GetInput("tok-u1", Undefined) EXCEPT !.header = "absent"],
        GetInput("tok-bad", Undefined),
        PostInput("tok-u1", BaseBody), GetInput("tok-u1", Undefined)}

NextAuth == NextOn(AuthInputs, {"cancelled"}, {"unavailable"})
SpecAuth == Init /\ [][NextAuth]_vars

\* u1 books provider p1 and lists with and without a providerId filter; u2
\* owns nothing.
FilterInputs ==
  {PostInput("tok-u1", BaseBody),
   GetInput("tok-u1", Undefined), GetInput("tok-u1", "p2"),
   GetInput("tok-u2", Undefined), GetInput("tok-bad", Undefined)}

NextFilter == NextOn(FilterInputs, {"cancelled"}, {"unavailable"})
SpecFilter == Init /\ [][NextFilter]_vars

\* Creates with a price that is positive, negative, a numeric string, another
\* string, or absent.
PriceInputs ==
  {PostInput("tok-u1", [BaseBody EXCEPT !.totalPrice = p]) :
     p \in {PNum(50), PNum(-5), PNumStr(20), PStr, PUndef}}
  \cup {GetInput("tok-u1", Undefined), PostInput("tok-bad", BaseBody)}

NextPrice == NextOn(PriceInputs, {"cancelled"}, {"unavailable"})
SpecPrice == Init /\ [][NextPrice]_vars

\* The slot of scenario 1 on svc1, on svc2 and on another date.
ScopeInputs ==
  {PostInput("tok-u1", b) :
     b \in {BaseBody,
            [BaseBody EXCEPT !.serviceId = "svc2"],
            [BaseBody EXCEPT !.date = "2024-06-02"]}}
  \cup {GetInput("tok-u1", Undefined), PostInput("tok-bad", BaseBody)}

NextScope == NextOn(ScopeInputs, {"cancelled"}, {"unavailable"})
SpecScope == Init /\ [][NextScope]_vars

\* One request for each way through the middleware and the handlers: no
\* header, a rejected token, a missing field, a create and a list.
PathInputs ==
  {[PostInput("tok-u1", BaseBody) EXCEPT !.header = "absent"],
   GetInput("tok-bad", Undefined),
   PostInput("tok-u1", [BaseBody EXCEPT !.providerId = ""]),
   PostInput("tok-u1", BaseBody), GetInput("tok-u1", Undefined)}

NextPaths == NextOn(PathInputs, {"cancelled"}, {"unavailable"})
SpecPaths == Init /\ [][NextPaths]_vars

\* =================================================================
\* The claims
\* =================================================================

PostDone(r) == req[r].pc = "done" /\ req[r].method = "POST"
GetDone(r)  == req[r].pc = "done" /\ req[r].method = "GET"

\* The request carries the five required fields.
Complete(b) ==
  ~(Falsy(b.serviceId) \/ Falsy(b.providerId) \/ Falsy(b.date)
    \/ Falsy(b.startTime) \/ Falsy(b.endTime))

Authenticated_(r) == req[r].user # Undefined

\* The request is a create the store answered: valid token, the five
\* required fields, a service that exists, no store call failed or timed out.
ServedCreate(r) ==
  /\ PostDone(r)
  /\ Authenticated_(r)
  /\ Complete(req[r].body)
  /\ req[r].body.serviceId \in services
  /\ ~req[r].failed

\* The reservation request r persisted.
Persisted(r) == \E d \in Docs : d.rq = req[r].n

NoDoubleBooking ==
  \A i, j \in 1..Len(store) :
    (i < j /\ store[i].status # "cancelled" /\ store[j].status # "cancelled")
      => ~SameSlot(store[i], store[j])

\* C1: in every reachable state no two persisted reservations of the same
\* serviceId and date, both with status other than 'cancelled', have
\* overlapping half-open time ranges; stated here for the revisions that make
\* the conflict check (srvA, p000), whatever the interleaving of two creates.
C1_NoDoubleBooking ==
  rev \in {"srvA", "p000"} => NoDoubleBooking

\* C2: when a reservation that is not cancelled is persisted, a later create
\* for the same serviceId and date whose range overlaps it is answered 409
\* and adds nothing to the store.
C2_SequentialConflict ==
  \A r \in Slots :
    (/\ ServedCreate(r)
     /\ \E i \in 1..req[r].base :
          store[i].status # "cancelled" /\ SameSlot(req[r].body, store[i]))
      => (req[r].status = 409 /\ req[r].added = 0)

\* The same statement for the revisions that make the conflict check.
C2_SequentialConflictChecked ==
  rev \in {"srvA", "p000"} => C2_SequentialConflict

\* C3: a create that only touches existing reservations (its start is their
\* end, or its end their start) is never answered 409, and when the store
\* answers its calls it is answered 201 and its record is persisted.
C3_AdjacentAccepted ==
  \A r \in Slots :
    /\ (PostDone(r) /\ req[r].status = 409) => ~req[r].clear
    /\ (ServedCreate(r) /\ req[r].touch /\ req[r].clear)
         => (req[r].status = 201 /\ Persisted(r))

\* A create answered 201 by a revision that makes the conflict check, while a
\* live reservation touched its slot.
C3_Witness ==
  \E r \in Slots :
    /\ rev \in {"srvA", "p000"}
    /\ ServedCreate(r) /\ req[r].touch /\ req[r].status = 201 /\ Persisted(r)

\* The owner field of a document: the one of userId and clientId that is set.
Owner(d) == IF d.userId # Undefined THEN d.userId ELSE d.clientId

\* C4: every persisted reservation is owned by the uid the verifier returned
\* for the token of the request that created it, whatever owner the request
\* body names, and no step changes the owner of a persisted reservation.
C4_OwnerIsVerifiedUid ==
  /\ [](\A d \in Docs : Owner(d) = d.by /\ d.by \in Users)
  /\ [][\A i \in 1..Len(store) :
          /\ i <= Len(store')
          /\ store'[i].userId = store[i].userId
          /\ store'[i].clientId = store[i].clientId]_vars

\* A reservation created by u1 with a body that names u2 as its client.
C4_Witness ==
  \E r \in Slots :
    /\ PostDone(r) /\ req[r].status = 201
    /\ req[r].body.clientId = "u2" /\ TokenUid(req[r].token) = "u1"
    /\ \E d \in Docs : d.rq = req[r].n /\ Owner(d) = "u1"

KnownServices == {"svc1", "svc2"}

\* C6: a create that lacks one of serviceId, providerId, date, startTime,
\* endTime is answered 400, persists nothing and issues no store call.
C6_MissingFieldRejected ==
  \A r \in Slots :
    (PostDone(r) /\ Authenticated_(r) /\ ~Complete(req[r].body))
      => /\ req[r].status = 400
         /\ req[r].added = 0 /\ req[r].issued = 0 /\ ~Persisted(r)

\* The same statement for the revisions other than srvB.
C6_MissingFieldRejectedFive == rev # "srvB" => C6_MissingFieldRejected

\* C7: a create whose serviceId names no service is answered 404 and
\* persists nothing, and no reservation is persisted whose service the
\* handler did not see exist.
C7_UnknownServiceRejected ==
  /\ \A r \in Slots :
       (/\ PostDone(r) /\ Authenticated_(r) /\ Complete(req[r].body)
        /\ ~req[r].failed
        /\ req[r].body.serviceId \notin KnownServices)
         => (req[r].status = 404 /\ req[r].added = 0)
  /\ \A d \in Docs : d.checked

\* The same statement for the revisions that make the existence check.
C7_UnknownServiceRejectedChecked ==
  rev \in {"srvA", "p000"} => C7_UnknownServiceRejected

\* C8: a create answered 201 added exactly one record and a create answered
\* an error status added none.
C8_OneRecordPerSuccess ==
  \A r \in Slots :
    PostDone(r) =>
      /\ req[r].status = 201 => req[r].added = 1
      /\ req[r].status \in {400, 403, 404, 409, 429, 500, 504}
           => req[r].added = 0

\* The same statement for the revisions without the timeout race.
C8_OneRecordPerSuccessNoRace == rev # "srvB" => C8_OneRecordPerSuccess

\* The document of an entry of the list.
DocOfEntry(e) == CHOOSE d \in Docs : d.id = e.id

\* C9: a list without providerId filter answered 200 holds exactly the
\* reservations created by requests of the caller (all those persisted when
\* the list arrived, none of another user), newest first.
C9_ListReturnsOwn ==
  \A r \in Slots :
    (GetDone(r) /\ req[r].status = 200 /\ Falsy(req[r].providerId))
      => LET out == req[r].out
         IN  /\ \A i \in 1..req[r].base :
                  store[i].by = TokenUid(req[r].token)
                    => \E k \in 1..Len(out) : out[k].id = store[i].id
             /\ \A k \in 1..Len(out) :
                  /\ \E d \in Docs : d.id = out[k].id
                  /\ DocOfEntry(out[k]).by = TokenUid(req[r].token)
             /\ \A k, l \in 1..Len(out) :
                  k < l => DocOfEntry(out[k]).createdAt
                             > DocOfEntry(out[l]).createdAt

\* The same statement for the revisions other than p000.
C9_ListReturnsOwnSameField == rev # "p000" => C9_ListReturnsOwn

\* A service value that stands for no service: null, {} or no field.
NoService == {"null", "{}", "absent"}

\* C10: once the primary query resolved, the list answers 200 with one entry
\* per document of the snapshot, in its order; an entry whose lookup was
\* skipped (no serviceId), found nothing or failed carries no service, and
\* every entry whose lookup found the service carries it.
C10_PartialFailureTolerated ==
  \A r \in Slots :
    (GetDone(r) /\ Authenticated_(r) /\ ~req[r].failed)
      => LET out  == req[r].out
             snap == req[r].snapshot
         IN  /\ req[r].status = 200
             /\ Len(out) = Len(snap)
             /\ \A i \in 1..Len(out) :
                  /\ out[i].id = snap[i].id
                  /\ out[i].lk \in {"skipped", "missing", "failed"}
                       => out[i].service \in NoService
                  /\ out[i].lk = "found"
                       => out[i].service = ServiceKey(snap[i])
                  /\ out[i].lk # "pending"

\* A list answered 200 with two entries: the lookup of one failed, the
\* lookup of the other found its service.
C10_Witness ==
  \E r \in Slots :
    /\ GetDone(r) /\ req[r].status = 200 /\ Len(req[r].out) = 2
    /\ \E i, j \in 1..2 :
         /\ req[r].out[i].lk = "failed" /\ req[r].out[i].service \in NoService
         /\ req[r].out[j].lk = "found"

\* The primary query of a list is issued and has not settled.
QueryPending(r) ==
  req[r].method = "GET" /\ req[r].pc \in {"query", "race"}

\* C11: a list whose primary query is still pending when the response is
\* sent is answered 504, a list whose primary query failed is answered
\* another status, and a list whose primary query is pending does not stay
\* without a response (the timer fires).
C11_ListTimeout ==
  /\ [][\A r \in Slots :
          (QueryPending(r) /\ req'[r].pc = "done" /\ req'[r].n = req[r].n)
            => /\ req'[r].late = "store" => req'[r].status = 504
               /\ req'[r].late # "store" => req'[r].status # 504]_vars
  /\ \A r \in Slots : QueryPending(r) ~> ~QueryPending(r)

\* The same statement for the revision that races the query against a timer.
C11_ListTimeoutRaced ==
  \A r \in Slots : (rev = "srvB" /\ QueryPending(r)) ~> ~QueryPending(r)

\* C12: a create whose store call failed with code permission-denied is
\* answered 403, and one whose store call failed with code
\* resource-exhausted is answered 429.
C12_StoreErrorMapping ==
  \A r \in Slots :
    PostDone(r) =>
      /\ req[r].err = "permission-denied" => req[r].status = 403
      /\ req[r].err = "resource-exhausted" => req[r].status = 429

\* The permission-denied half, for the revisions whose catch block looks at
\* the error code.
C12_PermissionDeniedMapped ==
  \A r \in Slots :
    (rev \in {"srvA", "p000"} /\ PostDone(r)
     /\ req[r].err = "permission-denied") => req[r].status = 403

\* The request in slot r carries no credentials the verifier accepts.
Unauthenticated(r) ==
  /\ req[r].pc # "idle"
  /\ req[r].header # "bearer" \/ TokenUid(req[r].token) = Undefined

\* The handler of the request in slot r has been entered.
HandlerEntered(r) ==
  \/ req[r].pc \in {"svcGet", "conflict", "set", "race", "query", "lookup"}
  \/ req[r].pc = "done" /\ req[r].status # 401

\* C13: a request without 'Bearer ' header or with a token the verifier
\* rejects never enters the handler, issues no store call, persists nothing
\* and, once answered, is answered 401; a request whose handler was entered
\* carries the uid the verifier returned for its token.
C13_AuthGate ==
  \A r \in Slots :
    /\ Unauthenticated(r)
         => /\ ~HandlerEntered(r)
            /\ req[r].issued = 0 /\ req[r].added = 0 /\ ~Persisted(r)
            /\ req[r].user = Undefined
            /\ req[r].pc = "done" => req[r].status = 401
    /\ HandlerEntered(r)
         => req[r].user = TokenUid(req[r].token) /\ req[r].user \in Users

\* A request with a valid token under another scheme and a request whose
\* token the verifier rejected, both answered 401.
C13_Witness ==
  \E r, r2 \in Slots :
    /\ req[r].pc = "done" /\ req[r].status = 401
    /\ req[r].header = "basic" /\ req[r].token = "tok-u1"
    /\ req[r2].pc = "done" /\ req[r2].status = 401
    /\ req[r2].header = "bearer" /\ req[r2].token = "tok-bad"

\* The caller of the list in slot r created no reservation that matches the
\* providerId filter of the list (every reservation when there is none).
NoneOwned(r) ==
  \A d \in Docs :
    ~(/\ d.by = TokenUid(req[r].token)
      /\ Falsy(req[r].providerId) \/ d.providerId = req[r].providerId)

\* A list the store answered.
ServedList(r) == GetDone(r) /\ Authenticated_(r) /\ ~req[r].failed

\* C14: a list of a caller who owns no reservation, or none that matches the
\* providerId filter, is answered 200 with an empty sequence.
C14_EmptyState ==
  \A r \in Slots :
    (ServedList(r) /\ NoneOwned(r))
      => (req[r].status = 200 /\ req[r].out = <<>>)

\* The same statement for lists without providerId filter.
C14_EmptyStateNoFilter ==
  \A r \in Slots :
    (ServedList(r) /\ NoneOwned(r) /\ Falsy(req[r].providerId))
      => (req[r].status = 200 /\ req[r].out = <<>>)

\* The request in slot r was answered after a store call of its handler
\* failed.
AnsweredAfterFailure(r) == req[r].pc = "done" /\ req[r].err # "none"

\* C15: a request answered after a store call failed had made that call at
\* least twice and at most 3 times.
C15_AutomaticRetry ==
  \A r \in Slots :
    AnsweredAfterFailure(r) => (req[r].tries >= 2 /\ req[r].tries <= 3)

\* The upper half of the statement: never more than 3 attempts.
C15_AtMostThreeAttempts ==
  \A r \in Slots : AnsweredAfterFailure(r) => req[r].tries <= 3

\* C16: a list answered 200 has exactly one entry per document of the
\* primary query result, the i-th entry carrying the id of the i-th document,
\* and the documents of that result are in descending createdAt order,
\* whatever the order in which the service lookups settled.
C16_OrderPreserved ==
  \A r \in Slots :
    (GetDone(r) /\ req[r].status = 200)
      => LET out  == req[r].out
             snap == req[r].snapshot
         IN  /\ Len(out) = Len(snap)
             /\ \A i \in 1..Len(snap) : out[i].id = snap[i].id
             /\ \A i, j \in 1..Len(snap) :
                  i < j => snap[i].createdAt > snap[j].createdAt

\* A list of two entries answered 200 after the lookup of the second entry
\* settled before the lookup of the first.
C16_Witness ==
  \E r \in Slots :
    /\ GetDone(r) /\ req[r].status = 200
    /\ Len(req[r].out) = 2 /\ req[r].early
    /\ req[r].out[1].id = req[r].snapshot[1].id

\* The numeric value of a request's totalPrice: the number, or the number a
\* numeric string spells; PNaN when the field is absent or not numeric.
Numeric(p) ==
  IF p.t \in {"num", "numstr"} THEN PNum(p.n) ELSE PNaN

\* The totalPrice of document d is the non-negative number the claim
\* prescribes for the totalPrice asked.
PriceAsPrescribed(d) ==
  /\ d.totalPrice.t = "num" /\ d.totalPrice.n >= 0
  /\ (Numeric(d.asked).t = "num" /\ Numeric(d.asked).n >= 0)
       => d.totalPrice = Numeric(d.asked)
  /\ Numeric(d.asked).t = "nan" => d.totalPrice = PNum(0)

\* C17: the totalPrice of every persisted reservation is a number that is
\* not negative: the numeric value of the request's totalPrice when that is a
\* non-negative number, 0 when the field is absent or not numeric.
C17_PriceNonNegative == \A d \in Docs : PriceAsPrescribed(d)

\* The same statement for the revisions that convert with Number(), on
\* requests whose totalPrice is not a negative number.
C17_PriceConverted ==
  \A d \in Docs :
    (rev \in {"srvA", "p000"}
     /\ ~(Numeric(d.asked).t = "num" /\ Numeric(d.asked).n < 0))
      => PriceAsPrescribed(d)

\* C18: a create is answered 409 only when a reservation that is not
\* cancelled books the same serviceId and date at an overlapping time; a
\* create that overlaps in time only reservations that are cancelled or book
\* another serviceId or date is answered 201 and persisted when the store
\* answers its calls.
C18_ConflictScope ==
  \A r \in Slots :
    /\ (PostDone(r) /\ req[r].status = 409)
         => (rev \in {"srvA", "p000"} /\ ~req[r].clear)
    /\ (ServedCreate(r) /\ req[r].shadow /\ req[r].clear)
         => (req[r].status = 201 /\ Persisted(r))

\* A create answered 201 by a revision that makes the conflict check while a
\* cancelled reservation of the same service and date overlaps it, and its
\* record is in the store.
C18_Witness ==
  \E r \in Slots :
    /\ rev \in {"srvA", "p000"}
    /\ ServedCreate(r) /\ req[r].shadow /\ req[r].status = 201
    /\ \E d, e \in Docs :
         /\ d.rq = req[r].n
         /\ e.status = "cancelled" /\ e.rq # d.rq /\ SameSlot(d, e)

\* C19: a request has at most one response, it has exactly one once its
\* middleware or handler is over, and no later step (the late settlement of
\* the store call or of the timer included) sends another response or
\* changes the status that was sent.
C19_OneResponse ==
  /\ [](\A r \in Slots :
          /\ req[r].sent <= 1
          /\ req[r].pc = "done" <=> req[r].sent = 1)
  /\ [][\A r \in Slots :
          (req[r].sent = 1 /\ req'[r].n = req[r].n)
            => (req'[r].sent = 1 /\ req'[r].status = req[r].status)]_vars

\* A create answered 504 whose add() resolved after the response: its record
\* is in the store and the response is still the only one.
C19_Witness ==
  \E r \in Slots :
    /\ rev = "srvB" /\ PostDone(r) /\ req[r].status = 504
    /\ req[r].late = "none" /\ req[r].added = 1 /\ req[r].sent = 1

\* A list is being served in slot r and has no response yet.
ListUnanswered(r) ==
  req[r].method = "GET" /\ req[r].pc \notin {"idle", "done"}

\* C20: in the revision that races the primary query against a timer, every
\* list eventually has a response when the timer fires and the verifier
\* answers, even if the store never answers a call of the list.
C20_ListResponds ==
  \A r \in Slots :
    (rev = "srvB" /\ ListUnanswered(r)) ~> (req[r].pc = "done")

\* The same statement up to the end of the primary query: the list leaves
\* the verification and the race.
C20_ListRespondsOrLooksUp ==
  \A r \in Slots :
    (rev = "srvB" /\ ListUnanswered(r))
      ~> (req[r].pc \in {"done", "lookup"})

====
